---- MODULE Spec2Model ----
(***************************************************************************)
(* midi-interceptor: the split-table compiler (buildSplitTable), the       *)
(* message transformer (transformMidiSrc), the input-port admission        *)
(* (wildcardToRegex, isExcluded, setupMidiInput) and the routing engine    *)
(* (execute, handleMessage, cleanup).                                      *)
(*                                                                         *)
(* JavaScript values are modelled by tagged records.  A scalar is          *)
(* [t, v, f]: t is what `typeof` answers ("number", "string",             *)
(* "undefined"), v the number (0 when t is not "number") and f = 1 when    *)
(* the number is v + 1/2, else 0: JSON numbers are modelled as integers    *)
(* and half-integers.  An array-or-not value is [isArray, items].  A       *)
(* string that                                                             *)
(* is matched (a port name, a wildcard pattern) is a sequence of           *)
(* one-character strings.  Port indexes are 1-based here (0-based in the   *)
(* source); vOutPortIndex = 0 stands for `null`.                           *)
(***************************************************************************)
EXTENDS Integers, Sequences, FiniteSets, TLC

VARIABLES
  inputData,        \* the merged configuration handed to execute
  outPortNames,     \* transport: names of the output ports, in enumeration order
  inPortNames,      \* transport: names of the input ports, in enumeration order
  openFails,        \* transport: the input ports whose openPort throws
  pc,               \* where the process is: execute's position, running, exited, threw
  transformMidi,    \* utils.js module variable: "placeholder" or "closure"
  splitTable,       \* the table captured by the closure: its entries note -> channel
                    \* whose key and value are both integers
  strayEntries,     \* the table's other entries, key and value counted in halves
  debugMode,        \* cli-primer's debug mode, switched by utils.setDebugMode
  log,              \* the events handed to the monitoring function $m
  vOutPortIndex,    \* execute's local; 0 is null
  output,           \* the midi.Output instance: [port, open, closes]
  moduleOutput,     \* utils.js module variable set by setOutput
  i,                \* execute's loop index over the input ports
  localInputs,      \* execute's local inputInstances (port indexes, in push order)
  inputInstances,   \* utils.js module variable inputInstances
  inputs,           \* per input port: [open, listening, closes]
  received,         \* the messages the transport delivered: [port, message], in order
  sent,             \* the messages given to output.sendMessage, in order
  cleanupCalled,    \* utils.js module flag
  cleanupPc,        \* cleanup's position: idle, closingInputs, exiting, done, threw
  ci,               \* cleanup's position in inputInstances.forEach
  cleanupCalls,     \* how many times cleanup has been entered
  exitCode          \* -1 while the process lives, else process.exit's code

vars == <<inputData, outPortNames, inPortNames, openFails, pc, transformMidi,
          splitTable, strayEntries, debugMode, log, vOutPortIndex, output, moduleOutput, i, localInputs,
          inputInstances, inputs, received, sent, cleanupCalled, cleanupPc, ci,
          cleanupCalls, exitCode>>

----------------------------------------------------------------------------
(* JavaScript values *)

Num(n) == [t |-> "number", v |-> n, f |-> 0]
Undef == [t |-> "undefined", v |-> 0, f |-> 0]
Str == [t |-> "string", v |-> 0, f |-> 0]
\* The number n + 1/2, and twice a number's value.
Half(n) == [t |-> "number", v |-> n, f |-> 1]
Twice(x) == 2 * x.v + x.f
IsInteger(x) == x.f = 0
NotArr == [isArray |-> FALSE, items |-> <<>>]
Arr(s) == [isArray |-> TRUE, items |-> s]

\* typeof x === "number"
IsNumber(x) == x.t = "number"

\* An event handed to $m; index is the forEach index (0-based as in the
\* source) or -1 when the event carries none.
Event(type, text, index) == [type |-> type, text |-> text, index |-> index]

\* One entry of the splitDefinitions array.  js is the entry's JavaScript
\* kind ("object", "string", "number", "null"); a property read on a string
\* or a number yields undefined, on null it throws.
Entry(js, type, midiFrom, midiTo, midi, channel) ==
  [js |-> js, type |-> type, midiFrom |-> midiFrom, midiTo |-> midiTo,
   midi |-> midi, channel |-> channel]
RangeDef(midiFrom, midiTo, channel) ==
  Entry("object", "range", midiFrom, midiTo, NotArr, channel)
EnumDef(midi, channel) ==
  Entry("object", "enumeration", Undef, Undef, midi, channel)
UnknownDef == Entry("object", "other", Num(0), Num(1), NotArr, Num(1))
StringEntry == Entry("string", "undefined", Undef, Undef, NotArr, Undef)
NumberEntry == Entry("number", "undefined", Undef, Undef, NotArr, Undef)
NullEntry == Entry("null", "undefined", Undef, Undef, NotArr, Undef)

\* The value of inputData.splitTable: js is "array", "string" (a truthy
\* non-list such as "not a list") or "undefined" (missing, null: falsy).
DefsValue(js, items) == [js |-> js, items |-> items]

----------------------------------------------------------------------------
(* buildSplitTable *)

EmptyTable == [n \in {} |-> 0]

\* splitTable[midi] = channel
Put(table, midi, channel) ==
  [n \in DOMAIN table \cup {midi} |-> IF n = midi THEN channel ELSE table[n]]

\* Mutant: a note that already has a channel keeps it (first writer wins).
PutRangeKeepFirst(table, midiFrom, midiTo, channel) ==
  [n \in DOMAIN table \cup (midiFrom..midiTo) |->
     IF n \in DOMAIN table THEN table[n] ELSE channel]

\* Mutant: the loop stops one note early (midi < midiTo).
PutRangeExclusive(table, midiFrom, midiTo, channel) ==
  [n \in DOMAIN table \cup (midiFrom..(midiTo - 1)) |->
     IF n \in midiFrom..(midiTo - 1) THEN channel ELSE table[n]]

\* for (let midi = midiFrom; midi <= midiTo; midi++) splitTable[midi] = channel
PutRange(table, midiFrom, midiTo, channel) ==
  [n \in DOMAIN table \cup (midiFrom..midiTo) |->
     IF n \in midiFrom..midiTo THEN channel ELSE table[n]]

\* midi.forEach((midiValue) => { splitTable[midiValue] = channel })
RECURSIVE PutEach(_, _, _)
PutEach(table, items, channel) ==
  IF items = <<>> THEN table
  ELSE PutEach(Put(table, Head(items).v, channel), Tail(items), channel)

\* The comparisons of the source, on numbers that may have a fraction:
\* x >= c and x <= c are taken on twice the values.
RangeAccepted(d) ==
  /\ IsNumber(d.midiFrom) /\ Twice(d.midiFrom) >= 0 /\ Twice(d.midiFrom) <= 2 * 127
  /\ IsNumber(d.midiTo) /\ Twice(d.midiTo) >= 0 /\ Twice(d.midiTo) <= 2 * 127
  /\ IsNumber(d.channel) /\ Twice(d.channel) >= 2 * 1 /\ Twice(d.channel) <= 2 * 16
  /\ Twice(d.midiFrom) <= Twice(d.midiTo)

\* Mutant: midi.some(...) in place of midi.every(...).
EnumerationAcceptedSomeNote(d) ==
  /\ d.midi.isArray
  /\ \E k \in 1..Len(d.midi.items) :
       /\ IsNumber(d.midi.items[k])
       /\ Twice(d.midi.items[k]) >= 0
       /\ Twice(d.midi.items[k]) <= 2 * 127
  /\ IsNumber(d.channel) /\ Twice(d.channel) >= 2 * 1 /\ Twice(d.channel) <= 2 * 16

EnumerationAccepted(d) ==
  /\ d.midi.isArray
  /\ \A k \in 1..Len(d.midi.items) :
       /\ IsNumber(d.midi.items[k])
       /\ Twice(d.midi.items[k]) >= 0
       /\ Twice(d.midi.items[k]) <= 2 * 127
  /\ IsNumber(d.channel) /\ Twice(d.channel) >= 2 * 1 /\ Twice(d.channel) <= 2 * 16

\* The table without the keys of a set.
Drop(table, keys) == [n \in DOMAIN table \ keys |-> table[n]]

\* splitTable[key] = value, key and value given in halves: an entry of two
\* integers goes to st.table, any other to st.stray, and it replaces the
\* entry the key had.
Store(st, key2, value2) ==
  IF key2 % 2 = 0 /\ value2 % 2 = 0
  THEN [st EXCEPT !.table = Put(@, key2 \div 2, value2 \div 2),
                  !.stray = Drop(@, {key2})]
  ELSE [st EXCEPT !.stray = Put(@, key2, value2),
                  !.table = Drop(@, IF key2 % 2 = 0 THEN {key2 \div 2} ELSE {})]

\* for (let midi = midiFrom; midi <= midiTo; midi++) splitTable[midi] = channel
\* when midiFrom or channel has a fraction.
\* Every key of the loop has the fraction of midiFrom, so all its entries go
\* to the same table; keys2 are the keys midi takes, in halves.
StoreRange(st, key2, to2, value2) ==
  LET keys2 == {key2 + 2 * j : j \in 0..((to2 - key2) \div 2)}
  IN  IF key2 % 2 = 0 /\ value2 % 2 = 0
      THEN [st EXCEPT
              !.table = [n \in DOMAIN st.table \cup {k \div 2 : k \in keys2} |->
                           IF 2 * n \in keys2 THEN value2 \div 2 ELSE st.table[n]],
              !.stray = Drop(@, keys2)]
      ELSE [st EXCEPT
              !.stray = [k \in DOMAIN st.stray \cup keys2 |->
                           IF k \in keys2 THEN value2 ELSE st.stray[k]],
              !.table = Drop(@, IF key2 % 2 = 0 THEN {k \div 2 : k \in keys2} ELSE {})]

\* midi.forEach((midiValue) => { splitTable[midiValue] = channel }) when a
\* note or channel has a fraction.
RECURSIVE StoreEach(_, _, _)
StoreEach(st, items, value2) ==
  IF items = <<>> THEN st
  ELSE StoreEach(Store(st, Twice(Head(items)), value2), Tail(items), value2)

\* The accepted range is written.
WriteRange(st, d) ==
  IF IsInteger(d.midiFrom) /\ IsInteger(d.channel)
  THEN [st EXCEPT !.table = PutRange(@, d.midiFrom.v, d.midiTo.v, d.channel.v),
                  !.stray = Drop(@, {2 * n : n \in d.midiFrom.v..d.midiTo.v})]
  ELSE StoreRange(st, Twice(d.midiFrom), Twice(d.midiTo), Twice(d.channel))

\* The accepted enumeration is written.
WriteEnumeration(st, d) ==
  IF IsInteger(d.channel) /\ \A k \in 1..Len(d.midi.items) : IsInteger(d.midi.items[k])
  THEN [st EXCEPT !.table = PutEach(@, d.midi.items, d.channel.v),
                  !.stray = Drop(@, {2 * d.midi.items[k].v : k \in 1..Len(d.midi.items)})]
  ELSE StoreEach(st, d.midi.items, Twice(d.channel))

\* The body of the forEach callback for one definition; st is
\* [table, stray, log, threw] and index the 0-based forEach index.
ApplyDefinition(st, definition, index) ==
  IF definition.js = "null"
  THEN [st EXCEPT !.threw = TRUE]
  ELSE IF definition.type = "range"
  THEN IF RangeAccepted(definition)
       THEN WriteRange(st, definition)
       ELSE [st EXCEPT !.log = Append(st.log, Event("warn", "invalid MIDI range", index))]
  ELSE IF definition.type = "enumeration"
  THEN IF EnumerationAccepted(definition)
       THEN WriteEnumeration(st, definition)
       ELSE [st EXCEPT !.log = Append(st.log, Event("warn", "invalid MIDI values", index))]
  ELSE [st EXCEPT !.log = Append(st.log, Event("warn", "unknown type", index))]

\* splitDefinitions.forEach(...): the entries from position k on, in order;
\* an exception ends the iteration.
RECURSIVE ForEachDefinition(_, _, _)
ForEachDefinition(st, items, k) ==
  IF st.threw \/ k > Len(items) THEN st
  ELSE ForEachDefinition(ApplyDefinition(st, items[k], k - 1), items, k + 1)

\* Mutant: the guard on a non-array or empty argument returns silently.
buildSplitTableSilent(splitDefinitions) ==
  IF splitDefinitions.js # "array" \/ Len(splitDefinitions.items) = 0
  THEN [table |-> EmptyTable, stray |-> EmptyTable, log |-> <<>>, threw |-> FALSE]
  ELSE ForEachDefinition([table |-> EmptyTable, stray |-> EmptyTable, log |-> <<>>, threw |-> FALSE],
                         splitDefinitions.items, 1)

\* The result is [table, stray, log, threw]: threw is TRUE when the call ends with
\* an uncaught TypeError and returns nothing.
buildSplitTable(splitDefinitions) ==
  IF splitDefinitions.js # "array" \/ Len(splitDefinitions.items) = 0
  THEN [table |-> EmptyTable, stray |-> EmptyTable,
        log |-> <<Event("warn", "invalid splitDefinitions", -1)>>,
        threw |-> FALSE]
  ELSE ForEachDefinition([table |-> EmptyTable, stray |-> EmptyTable, log |-> <<>>, threw |-> FALSE],
                         splitDefinitions.items, 1)

----------------------------------------------------------------------------
(* transformMidiSrc *)

RECURSIVE BitAnd(_, _)
BitAnd(a, b) ==
  IF a = 0 \/ b = 0 THEN 0
  ELSE (IF a % 2 = 1 /\ b % 2 = 1 THEN 1 ELSE 0) + 2 * BitAnd(a \div 2, b \div 2)

RECURSIVE BitOr(_, _)
BitOr(a, b) ==
  IF a = 0 THEN b
  ELSE IF b = 0 THEN a
  ELSE (IF a % 2 = 1 \/ b % 2 = 1 THEN 1 ELSE 0) + 2 * BitOr(a \div 2, b \div 2)

Message(status, note, velocity) ==
  [status |-> status, note |-> note, velocity |-> velocity]

isGenuineNoteOff(message) == message.status >= 128 /\ message.status <= 143
\* Mutant: the upper limit of the Note On range is dropped.
isNoteOnUnbounded(message) == message.status >= 144
isNoteOn(message) == message.status >= 144 /\ message.status <= 159
isFakeNoteOff(message) == isNoteOn(message) /\ message.velocity = 0
mustSplitByChannel(message) ==
  isNoteOn(message) \/ isFakeNoteOff(message) \/ isGenuineNoteOff(message)

\* Mutant: the table's channel is added to the channel the message has.
transformMidiSrcRelative(table, message) ==
  IF mustSplitByChannel(message) /\ message.note \in DOMAIN table
  THEN Message(BitOr(BitAnd(message.status, 240),
                     ((message.status % 16) + table[message.note] - 1) % 16),
               message.note, message.velocity)
  ELSE message

\* Mutant: the channel is added to the status byte, not written over its
\* low nibble.
transformMidiSrcAdded(table, message) ==
  IF mustSplitByChannel(message) /\ message.note \in DOMAIN table
  THEN Message((message.status + table[message.note] - 1) % 256,
               message.note, message.velocity)
  ELSE message

\* Mutant: the channel is written 1-based into the status byte.
transformMidiSrcOneBased(table, message) ==
  IF (message.status >= 128 /\ message.status <= 159) /\ message.note \in DOMAIN table
  THEN Message(BitOr(BitAnd(message.status, 240), table[message.note]),
               message.note, message.velocity)
  ELSE message

\* Mutant: a note without an entry is sent to channel 1.
transformMidiSrcDefaultChannel(table, message) ==
  IF message.status >= 128 /\ message.status <= 159
  THEN Message(BitOr(BitAnd(message.status, 240),
                     IF message.note \in DOMAIN table THEN table[message.note] - 1 ELSE 0),
               message.note, message.velocity)
  ELSE message

\* The returned message.
transformMidiSrc(table, message) ==
  IF mustSplitByChannel(message) /\ message.note \in DOMAIN table
  THEN Message(BitOr(BitAnd(message.status, 240), table[message.note] - 1),
               message.note, message.velocity)
  ELSE message

\* The table as transformMidiSrc reads it: hasOwnProperty(note) holds for
\* every integer key, and a channel with a fraction loses it in
\* (status & 0xf0) | (channel - 1).
TableRead(table, stray) ==
  [n \in DOMAIN table \cup {k \div 2 : k \in {j \in DOMAIN stray : j % 2 = 0}} |->
     IF n \in DOMAIN table THEN table[n] ELSE stray[2 * n] \div 2]

\* The debug events transformMidiSrc hands to $m.
transformMidiEvents(table, message) ==
  <<Event("debug",
          IF isNoteOn(message) THEN "NOTE ON"
          ELSE IF isGenuineNoteOff(message) \/ isFakeNoteOff(message) THEN "NOTE OFF"
          ELSE "VALUE", -1)>>
  \o (IF mustSplitByChannel(message) /\ message.note \in DOMAIN table
      THEN <<Event("debug", "REROUTED TO CHANNEL", -1)>>
      ELSE <<>>)

----------------------------------------------------------------------------
(* wildcardToRegex, isExcluded *)

\* The characters of the class /[.+^${}()|[\]\\]/
RegexSpecials == {".", "+", "^", "$", "{", "}", "(", ")", "|", "[", "]", "\\"}

\* What "." of a RegExp (no flags) does not match.
LineTerminators == {"\n", "\r"}

\* .replace(/[.+^${}()|[\]\\]/g, "\\$&")
RECURSIVE EscapeSpecials(_)
EscapeSpecials(s) ==
  IF s = <<>> THEN <<>>
  ELSE (IF Head(s) \in RegexSpecials THEN <<"\\", Head(s)>> ELSE <<Head(s)>>)
       \o EscapeSpecials(Tail(s))

\* .replace(/\?/g, ".")
RECURSIVE ReplaceQuestionMarks(_)
ReplaceQuestionMarks(s) ==
  IF s = <<>> THEN <<>>
  ELSE (IF Head(s) = "?" THEN <<".">> ELSE <<Head(s)>>)
       \o ReplaceQuestionMarks(Tail(s))

\* .replace(/\*/g, ".*")
RECURSIVE ReplaceStars(_)
ReplaceStars(s) ==
  IF s = <<>> THEN <<>>
  ELSE (IF Head(s) = "*" THEN <<".", "*">> ELSE <<Head(s)>>)
       \o ReplaceStars(Tail(s))

\* The source of the regular expression between its "^" and "$".
wildcardToRegex(pattern) ==
  ReplaceStars(ReplaceQuestionMarks(EscapeSpecials(pattern)))

\* new RegExp(`^${re}$`).test(s), for the sources wildcardToRegex builds:
\* "\" and the character after it are that character, ".*" is any run of
\* characters other than line terminators, "." is one such character,
\* anything else is itself; k and j are the positions reached in re and s.
RECURSIVE RegExpMatchFrom(_, _, _, _)
RegExpMatchFrom(re, k, s, j) ==
  IF k > Len(re) THEN j > Len(s)
  ELSE IF re[k] = "\\"
  THEN /\ k + 1 <= Len(re)
       /\ j <= Len(s)
       /\ s[j] = re[k + 1]
       /\ RegExpMatchFrom(re, k + 2, s, j + 1)
  ELSE IF re[k] = "." /\ k + 1 <= Len(re) /\ re[k + 1] = "*"
  THEN \/ RegExpMatchFrom(re, k + 2, s, j)
       \/ /\ j <= Len(s)
          /\ s[j] \notin LineTerminators
          /\ RegExpMatchFrom(re, k, s, j + 1)
  ELSE IF re[k] = "."
  THEN /\ j <= Len(s)
       /\ s[j] \notin LineTerminators
       /\ RegExpMatchFrom(re, k + 1, s, j + 1)
  ELSE /\ j <= Len(s)
       /\ s[j] = re[k]
       /\ RegExpMatchFrom(re, k + 1, s, j + 1)

RegExpTest(re, s) == RegExpMatchFrom(re, 1, s, 1)

\* A pattern handed to isExcluded: [t, s] with t its JavaScript type and s
\* its characters when it is a string.
Pattern(s) == [t |-> "string", s |-> s]
NonStringPattern == [t |-> "number", s |-> <<>>]

\* exclusions.some((pattern) => wildcardToRegex(pattern).test(portName)):
\* "yes", "no", or "threw" when a pattern that is not a string is reached
\* (pattern.replace is not a function) before any pattern matched.
RECURSIVE isExcluded(_, _)
isExcluded(portName, exclusions) ==
  IF exclusions = <<>> THEN "no"
  ELSE IF Head(exclusions).t # "string" THEN "threw"
  ELSE IF RegExpTest(wildcardToRegex(Head(exclusions).s), portName) THEN "yes"
  ELSE isExcluded(portName, Tail(exclusions))

\* Mutant: the virtual output's name is not passed along.
ExclusionArgumentsUserOnly(vOutPortName, inputPortsExclusions) == inputPortsExclusions

\* The exclusions execute passes to setupMidiInput:
\* setupMidiInput(i, output, vOutPortName, ...inputPortsExclusions)
ExclusionArguments(vOutPortName, inputPortsExclusions) ==
  <<Pattern(vOutPortName)>> \o inputPortsExclusions

----------------------------------------------------------------------------
(* The process: execute (main.js), handleMessage and cleanup (utils.js),    *)
(* the exit-value handling of index.js                                      *)

ClosedPort == [open |-> FALSE, listening |-> FALSE, closes |-> 0]
ClosedOutput == [port |-> 0, open |-> FALSE, closes |-> 0]

\* What output.sendMessage receives from the placeholder transformer.
UndefinedMessage == Message(-1, -1, -1)

\* inputData.splitTable || []
SplitDefinitionsOrDefault(value) ==
  IF value.js = "undefined" THEN DefsValue("array", <<>>) ELSE value

\* Mutant: the search stops at the first match.
RECURSIVE FindOutputPortFirst(_, _, _, _)
FindOutputPortFirst(names, vOutPortName, k, found) ==
  IF k > Len(names) THEN found
  ELSE IF names[k] = vOutPortName THEN k
  ELSE FindOutputPortFirst(names, vOutPortName, k + 1, found)

\* The index the search loop of execute leaves in vOutPortIndex: the loop
\* has no break, each match overwrites the one before.
RECURSIVE FindOutputPort(_, _, _, _)
FindOutputPort(names, vOutPortName, k, found) ==
  IF k > Len(names) THEN found
  ELSE FindOutputPort(names, vOutPortName, k + 1,
                      IF names[k] = vOutPortName THEN k ELSE found)

\* setMidiTransformer(fnTransformer)
setMidiTransformer(fnTransformer) == transformMidi' = fnTransformer

\* setInputs(inputsList)
setInputs(inputsList) == inputInstances' = inputsList

\* setOutput(output)
setOutput == moduleOutput' = TRUE

\* Mutant: the table is built but the closure over it is not installed.
ExecuteBuildNoTransformer ==
  /\ pc = "start"
  /\ debugMode' = (debugMode \/ inputData.debug)
  /\ LET built == buildSplitTable(SplitDefinitionsOrDefault(inputData.splitTable))
     IN  IF built.threw
         THEN /\ pc' = "threw"
              /\ log' = log \o built.log
              /\ UNCHANGED <<splitTable, strayEntries>>
         ELSE /\ pc' = "outputResolving"
              /\ log' = log \o built.log
              /\ splitTable' = built.table
              /\ strayEntries' = built.stray
  /\ UNCHANGED <<inputData, outPortNames, inPortNames, openFails, cleanupPc, ci,
                 cleanupCalls, vOutPortIndex, output, transformMidi,
                 moduleOutput, i, localInputs, inputInstances, inputs, received,
                 sent, cleanupCalled, exitCode>>

\* execute, up to the transformer being installed: the debug flag is
\* honoured (utils.setDebugMode(true)), the table is built and the closure
\* over it is installed.
ExecuteBuild ==
  /\ pc = "start"
  /\ debugMode' = (debugMode \/ inputData.debug)
  /\ LET built == buildSplitTable(SplitDefinitionsOrDefault(inputData.splitTable))
     IN  IF built.threw
         THEN /\ pc' = "threw"
              /\ log' = log \o built.log
              /\ UNCHANGED <<splitTable, strayEntries, transformMidi>>
         ELSE /\ pc' = "outputResolving"
              /\ log' = log \o built.log
              /\ splitTable' = built.table
              /\ strayEntries' = built.stray
              /\ setMidiTransformer("closure")
  /\ UNCHANGED <<inputData, outPortNames, inPortNames, openFails, cleanupPc, ci,
                 cleanupCalls, vOutPortIndex, output,
                 moduleOutput, i, localInputs, inputInstances, inputs, received,
                 sent, cleanupCalled, exitCode>>

\* Mutant: the inputs are attached before the output port is opened.
ResolveOutputNotOpened ==
  /\ pc = "outputResolving"
  /\ LET found == FindOutputPort(outPortNames, inputData.virtualOutputName, 1, 0)
         listing == <<Event("debug", "Found MIDI Output devices", -1),
                      Event("debug", "Searching for virtual output port", -1)>>
                    \o [k \in 1..Len(outPortNames) |-> Event("debug", "port", k - 1)]
     IN  /\ vOutPortIndex' = found
         /\ IF found # 0
            THEN /\ UNCHANGED <<output, moduleOutput>>
                 /\ log' = log \o listing
                           \o <<Event("info", "Connected to virtual MIDI output", -1)>>
                 /\ i' = 1
                 /\ pc' = "inputsAttaching"
                 /\ UNCHANGED exitCode
            ELSE /\ log' = log \o listing
                           \o <<Event("error", "Virtual MIDI output port not found", -1)>>
                 /\ pc' = "exited"
                 /\ exitCode' = 2
                 /\ UNCHANGED <<output, moduleOutput, i>>
  /\ UNCHANGED <<inputData, outPortNames, inPortNames, openFails, debugMode,
                 strayEntries, cleanupPc, ci,
                 cleanupCalls, transformMidi, splitTable,
                 localInputs, inputInstances, inputs, received, sent,
                 cleanupCalled>>

\* Mutant: execute goes on to the input ports when the output is not found.
ResolveOutputNoExit ==
  /\ pc = "outputResolving"
  /\ LET found == FindOutputPort(outPortNames, inputData.virtualOutputName, 1, 0)
         listing == <<Event("debug", "Found MIDI Output devices", -1),
                      Event("debug", "Searching for virtual output port", -1)>>
                    \o [k \in 1..Len(outPortNames) |-> Event("debug", "port", k - 1)]
     IN  /\ vOutPortIndex' = found
         /\ IF found # 0
            THEN /\ output' = [port |-> found, open |-> TRUE, closes |-> 0]
                 /\ setOutput
                 /\ log' = log \o listing
                           \o <<Event("info", "Connected to virtual MIDI output", -1)>>
                 /\ i' = 1
                 /\ pc' = "inputsAttaching"
                 /\ UNCHANGED exitCode
            ELSE /\ log' = log \o listing
                           \o <<Event("error", "Virtual MIDI output port not found", -1)>>
                 /\ pc' = "inputsAttaching"
                 /\ UNCHANGED <<output, moduleOutput, i, exitCode>>
  /\ UNCHANGED <<inputData, outPortNames, inPortNames, openFails, debugMode,
                 strayEntries, cleanupPc, ci,
                 cleanupCalls, transformMidi, splitTable,
                 localInputs, inputInstances, inputs, received, sent,
                 cleanupCalled>>

\* execute: the output ports are listed, the virtual one is opened or the
\* process exits with 2.
ResolveOutput ==
  /\ pc = "outputResolving"
  /\ LET found == FindOutputPort(outPortNames, inputData.virtualOutputName, 1, 0)
         listing == <<Event("debug", "Found MIDI Output devices", -1),
                      Event("debug", "Searching for virtual output port", -1)>>
                    \o [k \in 1..Len(outPortNames) |-> Event("debug", "port", k - 1)]
     IN  /\ vOutPortIndex' = found
         /\ IF found # 0
            THEN /\ output' = [port |-> found, open |-> TRUE, closes |-> 0]
                 /\ setOutput
                 /\ log' = log \o listing
                           \o <<Event("info", "Connected to virtual MIDI output", -1)>>
                 /\ i' = 1
                 /\ pc' = "inputsAttaching"
                 /\ UNCHANGED exitCode
            ELSE /\ log' = log \o listing
                           \o <<Event("error", "Virtual MIDI output port not found", -1)>>
                 /\ pc' = "exited"
                 /\ exitCode' = 2
                 /\ UNCHANGED <<output, moduleOutput, i>>
  /\ UNCHANGED <<inputData, outPortNames, inPortNames, openFails, debugMode,
                 strayEntries, cleanupPc, ci,
                 cleanupCalls, transformMidi, splitTable,
                 localInputs, inputInstances, inputs, received, sent,
                 cleanupCalled>>

\* setupMidiInput(portIndex, output, ...exclusions): "threw" (a pattern is
\* not a string), "null" (the port is excluded) or "input" (the port is to
\* be opened and listened to).
setupMidiInput(portIndex, exclusions) ==
  LET excluded == isExcluded(inPortNames[portIndex], exclusions)
  IN  IF excluded = "threw" THEN "threw"
      ELSE IF excluded = "yes" THEN "null"
      ELSE "input"

\* execute: one turn of the loop over the input ports.  input.openPort(i)
\* throws for the ports of openFails, and nothing in setupMidiInput or
\* execute catches it.
AttachStep ==
  /\ pc = "inputsAttaching"
  /\ i <= Len(inPortNames)
  /\ LET inputInstance ==
           setupMidiInput(i, ExclusionArguments(inputData.virtualOutputName,
                                                inputData.exclusionsList))
     IN  IF inputInstance = "threw"
         THEN /\ pc' = "threw"
              /\ UNCHANGED <<i, inputs, localInputs, log>>
         ELSE IF inputInstance = "input" /\ i \in openFails
         THEN /\ pc' = "threw"
              /\ UNCHANGED <<i, inputs, localInputs, log>>
         ELSE IF inputInstance = "input"
         THEN /\ inputs' = [inputs EXCEPT ![i] = [open |-> TRUE, listening |-> TRUE,
                                                  closes |-> 0]]
              /\ localInputs' = Append(localInputs, i)
              /\ log' = Append(log, Event("info", "Listening to MIDI input port", i - 1))
              /\ i' = i + 1
              /\ UNCHANGED pc
         ELSE /\ log' = Append(log, Event("debug", "Skipped MIDI input port", i - 1))
              /\ i' = i + 1
              /\ UNCHANGED <<pc, inputs, localInputs>>
  /\ UNCHANGED <<inputData, outPortNames, inPortNames, openFails, debugMode,
                 strayEntries, cleanupPc, ci,
                 cleanupCalls, transformMidi, splitTable,
                 vOutPortIndex, output, moduleOutput, inputInstances, received,
                 sent, cleanupCalled, exitCode>>

\* execute: after the loop, return 1 (nothing to listen to) or 3.
AttachDone ==
  /\ pc = "inputsAttaching"
  /\ i > Len(inPortNames)
  /\ IF localInputs = <<>>
     THEN /\ log' = Append(log, Event("warn", "Not listening to any MIDI input devices", -1))
          /\ pc' = "returned1"
          /\ UNCHANGED inputInstances
     ELSE /\ setInputs(localInputs)
          /\ pc' = "running"
          /\ UNCHANGED log
  /\ UNCHANGED <<inputData, outPortNames, inPortNames, openFails, debugMode,
                 strayEntries, cleanupPc, ci,
                 cleanupCalls, transformMidi, splitTable,
                 vOutPortIndex, output, moduleOutput, i, localInputs, inputs, received,
                 sent, cleanupCalled, exitCode>>

\* index.js: if ([0, 1, 2].includes(exitValue)) process.exit(exitValue)
ExitWithValue ==
  /\ pc = "returned1"
  /\ pc' = "exited"
  /\ exitCode' = 1
  /\ UNCHANGED <<inputData, outPortNames, inPortNames, openFails, debugMode,
                 strayEntries, cleanupPc, ci,
                 cleanupCalls, transformMidi, splitTable, log,
                 vOutPortIndex, output, moduleOutput, i, localInputs, inputInstances,
                 inputs, received, sent, cleanupCalled>>

\* Mutant: the message is sent as it was received.
HandleMessageUntransformed(p, message) ==
  /\ pc = "running"
  /\ inputs[p].open /\ inputs[p].listening
  /\ received' = Append(received, [port |-> p, message |-> message])
  /\ sent' = Append(sent, message)
  /\ UNCHANGED <<inputData, outPortNames, inPortNames, openFails, debugMode,
                 strayEntries, cleanupPc, ci,
                 cleanupCalls, pc, transformMidi, splitTable, log, vOutPortIndex,
                 output, moduleOutput, i, localInputs, inputInstances, inputs,
                 cleanupCalled, exitCode>>

\* Mutant: in debug mode the message is only reported, and sent as it was.
HandleMessageDebugRaw(p, message) ==
  /\ pc = "running"
  /\ inputs[p].open /\ inputs[p].listening
  /\ received' = Append(received, [port |-> p, message |-> message])
  /\ sent' = Append(sent, IF debugMode THEN message
                          ELSE transformMidiSrc(splitTable, message))
  /\ log' = log \o transformMidiEvents(splitTable, message)
  /\ UNCHANGED <<inputData, outPortNames, inPortNames, openFails, debugMode,
                 strayEntries, cleanupPc, ci, cleanupCalls, pc, transformMidi,
                 splitTable, vOutPortIndex, output, moduleOutput, i, localInputs,
                 inputInstances, inputs, cleanupCalled, exitCode>>

\* Mutant: the transformer records in the table the channel each note was
\* sent on.
HandleMessageRecording(p, message) ==
  /\ pc = "running"
  /\ inputs[p].open /\ inputs[p].listening
  /\ received' = Append(received, [port |-> p, message |-> message])
  /\ sent' = Append(sent, transformMidiSrc(splitTable, message))
  /\ splitTable' = Put(splitTable, message.note,
                       (transformMidiSrc(splitTable, message).status % 16) + 1)
  /\ log' = log \o transformMidiEvents(splitTable, message)
  /\ UNCHANGED <<inputData, outPortNames, inPortNames, openFails, debugMode,
                 strayEntries, cleanupPc, ci, cleanupCalls, pc, transformMidi,
                 vOutPortIndex, output, moduleOutput, i, localInputs,
                 inputInstances, inputs, cleanupCalled, exitCode>>

\* Mutant: the newest message overtakes the ones sent before it.
HandleMessageNewestFirst(p, message) ==
  /\ pc = "running"
  /\ inputs[p].open /\ inputs[p].listening
  /\ received' = Append(received, [port |-> p, message |-> message])
  /\ sent' = <<transformMidiSrc(splitTable, message)>> \o sent
  /\ UNCHANGED <<inputData, outPortNames, inPortNames, openFails, debugMode,
                 strayEntries, cleanupPc, ci,
                 cleanupCalls, pc, transformMidi, splitTable, log, vOutPortIndex,
                 output, moduleOutput, i, localInputs, inputInstances, inputs,
                 cleanupCalled, exitCode>>

\* Mutant: the callback runs whenever its port is open and listened to,
\* also while execute is under way and while the process exits.
HandleMessageAnyTime(p, message) ==
  /\ inputs[p].open /\ inputs[p].listening
  /\ received' = Append(received, [port |-> p, message |-> message])
  /\ sent' = Append(sent, transformMidiSrc(TableRead(splitTable, strayEntries), message))
  /\ log' = log \o transformMidiEvents(TableRead(splitTable, strayEntries), message)
  /\ UNCHANGED <<inputData, outPortNames, inPortNames, openFails, debugMode,
                 strayEntries, cleanupPc, ci, cleanupCalls, pc, transformMidi,
                 splitTable, vOutPortIndex, output, moduleOutput, i, localInputs,
                 inputInstances, inputs, cleanupCalled, exitCode>>

\* The "message" callback of input port p: handleMessage sends what the
\* installed transformer returns.
HandleMessage(p, message) ==
  /\ pc = "running"
  /\ inputs[p].open /\ inputs[p].listening
  /\ received' = Append(received, [port |-> p, message |-> message])
  /\ sent' = Append(sent, IF transformMidi = "closure"
                          THEN transformMidiSrc(TableRead(splitTable, strayEntries), message)
                          ELSE UndefinedMessage)
  /\ log' = IF transformMidi = "closure"
            THEN log \o transformMidiEvents(TableRead(splitTable, strayEntries), message)
            ELSE log
  /\ UNCHANGED <<inputData, outPortNames, inPortNames, openFails, debugMode,
                 strayEntries, cleanupPc, ci,
                 cleanupCalls, pc, transformMidi, splitTable,
                 vOutPortIndex, output, moduleOutput, i, localInputs, inputInstances,
                 inputs, cleanupCalled, exitCode>>

\* index.js: execute's promise is awaited without a catch, so an exception
\* thrown by execute ends the process with exit code 1.
UncaughtException ==
  /\ pc = "threw"
  /\ pc' = "exited"
  /\ exitCode' = 1
  /\ UNCHANGED <<inputData, outPortNames, inPortNames, openFails, debugMode,
                 strayEntries, cleanupPc, ci,
                 cleanupCalls, transformMidi, splitTable, log, vOutPortIndex, output,
                 moduleOutput, i, localInputs, inputInstances, inputs, received, sent,
                 cleanupCalled>>

\* Bound on cleanupCalls, the count of entries into cleanup.
MaxCleanupCalls == 2

\* input.closePort() on input port p
closePort(ports, p) ==
  [ports EXCEPT ![p] = [open |-> FALSE, listening |-> FALSE, closes |-> @.closes + 1]]

\* Mutant: cleanup without its cleanupCalled guard.
CleanupUnguarded ==
  /\ pc \in {"running", "exited"}
  /\ cleanupPc \in {"idle", "done", "threw"}
  /\ cleanupCalls < MaxCleanupCalls
  /\ cleanupCalls' = cleanupCalls + 1
  /\ cleanupCalled' = TRUE
  /\ log' = Append(log, Event("info", "Application exiting. Closing ports...", -1))
  /\ cleanupPc' = "closingInputs"
  /\ ci' = 1
  /\ pc' = IF pc = "running" THEN "shuttingDown" ELSE pc
  /\ UNCHANGED <<inputData, outPortNames, inPortNames, openFails, debugMode,
                 strayEntries, transformMidi,
                 splitTable, vOutPortIndex, output, moduleOutput, i, localInputs,
                 inputInstances, inputs, received, sent, exitCode>>

\* cleanup is entered: on a shutdown request while the engine runs, or as
\* the process exits.  Once cleanupCalled is set it returns at once.
Cleanup ==
  /\ pc \in {"running", "exited"}
  /\ cleanupPc \in {"idle", "done", "threw"}
  /\ cleanupCalls < MaxCleanupCalls
  /\ cleanupCalls' = cleanupCalls + 1
  /\ IF cleanupCalled
     THEN UNCHANGED <<pc, log, cleanupCalled, cleanupPc, ci>>
     ELSE /\ cleanupCalled' = TRUE
          /\ log' = Append(log, Event("info", "Application exiting. Closing ports...", -1))
          /\ cleanupPc' = "closingInputs"
          /\ ci' = 1
          /\ pc' = IF pc = "running" THEN "shuttingDown" ELSE pc
  /\ UNCHANGED <<inputData, outPortNames, inPortNames, openFails, debugMode,
                 strayEntries, transformMidi,
                 splitTable, vOutPortIndex, output, moduleOutput, i, localInputs,
                 inputInstances, inputs, received, sent, exitCode>>

\* Mutant: output.closePort() is called inside the forEach, ahead of the
\* input's closePort.
CleanupCloseOutputFirst ==
  /\ cleanupPc = "closingInputs"
  /\ ci <= Len(inputInstances)
  /\ output' = [output EXCEPT !.open = FALSE, !.closes = @ + 1]
  /\ inputs' = closePort(inputs, inputInstances[ci])
  /\ ci' = ci + 1
  /\ UNCHANGED <<inputData, outPortNames, inPortNames, openFails, debugMode,
                 strayEntries, cleanupPc,
                 cleanupCalls, pc, transformMidi, splitTable, log, vOutPortIndex,
                 moduleOutput, i, localInputs, inputInstances, received, sent,
                 cleanupCalled, exitCode>>

\* cleanup: one turn of inputInstances.forEach((input) => input.closePort())
CleanupCloseInput ==
  /\ cleanupPc = "closingInputs"
  /\ ci <= Len(inputInstances)
  /\ inputs' = closePort(inputs, inputInstances[ci])
  /\ ci' = ci + 1
  /\ UNCHANGED <<inputData, outPortNames, inPortNames, openFails, debugMode,
                 strayEntries, cleanupPc,
                 cleanupCalls, pc, transformMidi, splitTable, log, vOutPortIndex,
                 output, moduleOutput, i, localInputs, inputInstances, received, sent,
                 cleanupCalled, exitCode>>

\* cleanup: output.closePort() once the forEach is over; `output` is the
\* module variable, undefined (a TypeError) unless setOutput was called.
CleanupCloseOutput ==
  /\ cleanupPc = "closingInputs"
  /\ ci > Len(inputInstances)
  /\ IF moduleOutput
     THEN /\ output' = [output EXCEPT !.open = FALSE, !.closes = @ + 1]
          /\ log' = Append(log, Event("debug", "Closed everything.", -1))
          /\ cleanupPc' = "exiting"
     ELSE /\ cleanupPc' = "threw"
          /\ UNCHANGED <<output, log>>
  /\ UNCHANGED <<inputData, outPortNames, inPortNames, openFails, debugMode,
                 strayEntries, ci, cleanupCalls,
                 pc, transformMidi, splitTable, vOutPortIndex, moduleOutput, i,
                 localInputs, inputInstances, inputs, received, sent, cleanupCalled,
                 exitCode>>

\* cleanup: process.exit(), which keeps the exit code of an exit already
\* under way.
CleanupExit ==
  /\ cleanupPc = "exiting"
  /\ cleanupPc' = "done"
  /\ pc' = "exited"
  /\ exitCode' = IF exitCode = -1 THEN 0 ELSE exitCode
  /\ UNCHANGED <<inputData, outPortNames, inPortNames, openFails, debugMode,
                 strayEntries, ci, cleanupCalls,
                 transformMidi, splitTable, log, vOutPortIndex, output, moduleOutput,
                 i, localInputs, inputInstances, inputs, received, sent, cleanupCalled>>

\* The process is gone: process.exit was called and no cleanup is under way.
Terminate ==
  /\ pc = "exited"
  /\ cleanupPc \in {"idle", "done", "threw"}
  /\ pc' = "terminated"
  /\ UNCHANGED <<inputData, outPortNames, inPortNames, openFails, debugMode,
                 strayEntries, cleanupPc, ci,
                 cleanupCalls, transformMidi, splitTable, log, vOutPortIndex, output,
                 moduleOutput, i, localInputs, inputInstances, inputs, received, sent,
                 cleanupCalled, exitCode>>

----------------------------------------------------------------------------
(* Bounds and input sets *)

MaxDefs == 2
MaxNameLen == 2
MaxPorts == 2
MaxSent == 2

SeqsUpTo(S, n) == UNION {[1..k -> S] : k \in 0..n}

\* The split-definition entries the compiler is tried on: ranges at and
\* around the limits 0, 127, 1 and 16, enumerations, wrong types, missing
\* fields, unknown tags and entries that are not records.
RangePairs == {<<0, 0>>, <<0, 1>>, <<1, 127>>, <<127, 127>>,
               <<1, 0>>, <<-1, 1>>, <<1, 128>>, <<128, 128>>}
RangeEntries ==
  {RangeDef(Num(r[1]), Num(r[2]), Num(c)) : r \in RangePairs, c \in {1, 16}}
  \cup {RangeDef(Num(0), Num(1), Num(c)) : c \in {0, 17}}
  \cup {RangeDef(Str, Num(1), Num(1)), RangeDef(Num(0), Undef, Num(1)),
        RangeDef(Num(0), Num(1), Str)}
EnumEntries ==
  {EnumDef(Arr(m), Num(2)) :
     m \in {<<>>, <<Num(0)>>, <<Num(0), Num(1)>>, <<Num(127), Num(1)>>,
            <<Num(0), Num(128)>>, <<Num(-1)>>, <<Num(1), Str>>}}
  \cup {EnumDef(Arr(<<Num(0), Num(1)>>), c) : c \in {Num(0), Num(17), Str}}
  \cup {EnumDef(NotArr, Num(2))}
Entries ==
  RangeEntries \cup EnumEntries
  \cup {UnknownDef, StringEntry, NumberEntry, NullEntry}

\* One-element lists holding a range, over every combination of limits
\* near the ends of 0..127 and every channel near 1..16.
EdgeNotes == (-1 .. 2) \cup (126 .. 128)
SingleRangeLists ==
  {<<RangeDef(Num(a), Num(b), Num(c))>> : a \in EdgeNotes, b \in EdgeNotes, c \in 0..17}

CompileInputs ==
  {DefsValue("array", l) : l \in SeqsUpTo(Entries, MaxDefs) \cup SingleRangeLists}
  \cup {DefsValue("string", <<>>), DefsValue("undefined", <<>>)}

\* The tables the transformer is tried on, each given as the list of
\* enumerations that compiles to it.
TableNotes == {60, 127}
TableChannels == {1, 3, 16}
Tables == UNION {[S -> TableChannels] : S \in SUBSET TableNotes}
RECURSIVE DefinitionsOf(_, _)
DefinitionsOf(table, notes) ==
  IF notes = {} THEN <<>>
  ELSE LET n == CHOOSE x \in notes : \A y \in notes : x <= y
       IN  <<EnumDef(Arr(<<Num(n)>>), Num(table[n]))>>
           \o DefinitionsOf(table, notes \ {n})
TransformMessages ==
  {Message(st, n, v) : st \in 0..255, n \in {0, 60, 61, 127}, v \in {0, 100}}

\* Port names and wildcard patterns: the non-empty strings over an ordinary
\* character, the two wildcards and a character the expression escapes.
Chars == {"a", "*", "?", "."}
Names == SeqsUpTo(Chars, MaxNameLen) \ {<<>>}
AdmitExclusions ==
  {<<>>, <<Pattern(<<"a">>)>>, <<Pattern(<<"a", "*">>)>>,
   <<Pattern(<<"?">>), Pattern(<<".", "*">>)>>, <<Pattern(<<"*">>)>>,
   <<NonStringPattern>>, <<NonStringPattern, Pattern(<<"a">>)>>,
   <<Pattern(<<"a">>), NonStringPattern>>}

Config(vOutPortName, defs, exclusions, debug) ==
  [virtualOutputName |-> vOutPortName, splitTable |-> defs,
   exclusionsList |-> exclusions, inputPortsExclusions |-> <<>>, debug |-> debug]

----------------------------------------------------------------------------
(* Specifications *)

\* The state when execute is entered: utils.js has been loaded.
InitProgram ==
  /\ pc = "start"
  /\ transformMidi = "placeholder"
  /\ splitTable = EmptyTable
  /\ strayEntries = EmptyTable
  /\ debugMode = FALSE
  /\ log = <<>>
  /\ vOutPortIndex = 0
  /\ output = ClosedOutput
  /\ moduleOutput = FALSE
  /\ i = 1
  /\ localInputs = <<>>
  /\ inputInstances = <<>>
  /\ inputs = [p \in 1..Len(inPortNames) |-> ClosedPort]
  /\ received = <<>>
  /\ sent = <<>>
  /\ cleanupCalled = FALSE
  /\ cleanupPc = "idle"
  /\ ci = 1
  /\ cleanupCalls = 0
  /\ exitCode = -1

\* The whole process in a small environment.
EngineNames == {<<"a">>, <<"a", "*">>}
EngineDefs ==
  {DefsValue("undefined", <<>>),
   DefsValue("array", <<RangeDef(Num(60), Num(63), Num(3))>>),
   DefsValue("array", <<NullEntry>>)}
EngineExclusions == {<<>>, <<Pattern(<<"a", "?">>)>>, <<NonStringPattern>>}
EngineMessages == {Message(144, 61, 90), Message(176, 61, 90)}

Init ==
  /\ inputData \in {Config(n, d, e, g) : n \in EngineNames, d \in EngineDefs,
                                         e \in EngineExclusions, g \in BOOLEAN}
  /\ outPortNames \in SeqsUpTo(EngineNames, MaxPorts)
  /\ inPortNames \in SeqsUpTo(EngineNames \cup {<<"a", "a">>}, MaxPorts)
  /\ openFails \in {{}} \cup {{p} : p \in 1..Len(inPortNames)}
  /\ InitProgram

Receive ==
  /\ Len(sent) < MaxSent
  /\ \E p \in DOMAIN inputs : \E message \in EngineMessages : HandleMessage(p, message)

Next ==
  \/ ExecuteBuild
  \/ ResolveOutput
  \/ AttachStep
  \/ AttachDone
  \/ ExitWithValue
  \/ UncaughtException
  \/ Receive
  \/ Cleanup
  \/ CleanupCloseInput
  \/ CleanupCloseOutput
  \/ CleanupExit
  \/ Terminate

Spec == Init /\ [][Next]_vars

\* buildSplitTable on every input of CompileInputs.
InitCompile ==
  /\ inputData \in {Config(<<"a">>, d, <<>>, FALSE) : d \in CompileInputs}
  /\ outPortNames = <<>>
  /\ inPortNames = <<>>
  /\ openFails = {}
  /\ InitProgram

NextCompile == ExecuteBuild

SpecCompile == InitCompile /\ [][NextCompile]_vars

\* buildSplitTable on definitions whose numbers may have a fraction: one
\* range or enumeration over notes and channels at and between the limits,
\* and pairs of definitions that write the same note.
FractionNotes == {Num(0), Half(0), Num(1), Half(-1), Half(126), Num(127), Half(127)}
FractionChannels == {Num(1), Half(0), Half(1), Half(15), Num(16), Half(16)}
FractionEntries ==
  {RangeDef(a, b, c) : a \in FractionNotes, b \in FractionNotes, c \in FractionChannels}
  \cup {EnumDef(Arr(m), c) :
          m \in {<<n>> : n \in FractionNotes}
                \cup {<<Num(0), Half(0)>>, <<Half(0), Num(0)>>, <<Num(1), Half(127)>>},
          c \in FractionChannels}
OverwritingEntries ==
  {RangeDef(Num(0), Num(1), Num(1)), RangeDef(Num(0), Num(1), Half(1)),
   RangeDef(Half(0), Num(1), Num(1)), EnumDef(Arr(<<Num(0)>>), Half(15)),
   EnumDef(Arr(<<Num(0)>>), Num(16))}
FractionLists ==
  {<<d>> : d \in FractionEntries}
  \cup {<<d, e>> : d \in OverwritingEntries, e \in OverwritingEntries}

InitFraction ==
  /\ inputData \in {Config(<<"a">>, DefsValue("array", l), <<>>, FALSE) :
                      l \in FractionLists}
  /\ outPortNames = <<>>
  /\ inPortNames = <<>>
  /\ openFails = {}
  /\ InitProgram

NextFraction == ExecuteBuild

SpecFraction == InitFraction /\ [][NextFraction]_vars

\* transformMidiSrc on every table of Tables and every message of
\* TransformMessages: one message received on the one input port.
InitTransform ==
  /\ inputData \in {Config(<<"a">>, DefsValue("array", DefinitionsOf(t, DOMAIN t)),
                           <<>>, FALSE) : t \in Tables}
  /\ outPortNames = <<<<"a">>>>
  /\ inPortNames = <<<<"a", "a">>>>
  /\ openFails = {}
  /\ InitProgram

ReceiveOne ==
  /\ sent = <<>>
  /\ \E message \in TransformMessages : HandleMessage(1, message)

NextTransform ==
  \/ ExecuteBuild
  \/ ResolveOutput
  \/ AttachStep
  \/ AttachDone
  \/ ReceiveOne

SpecTransform == InitTransform /\ [][NextTransform]_vars

\* The admission of one input port, for every virtual output name, port
\* name and exclusion list of the sets above.
InitAdmit ==
  /\ inputData \in {Config(n, DefsValue("undefined", <<>>), e, FALSE) :
                      n \in Names, e \in AdmitExclusions}
  /\ outPortNames = <<inputData.virtualOutputName>>
  /\ inPortNames \in {<<n>> : n \in Names}
  /\ openFails = {}
  /\ InitProgram

NextAdmit ==
  \/ ExecuteBuild
  \/ ResolveOutput
  \/ AttachStep
  \/ AttachDone
  \/ ExitWithValue

SpecAdmit == InitAdmit /\ [][NextAdmit]_vars

\* wildcardToRegex(pattern).test(candidate) for every pattern and candidate
\* of MatchNames, which add a line terminator to the characters above: the
\* pattern is the one exclusion and the candidate the one input port, and
\* the virtual output's name is longer than any candidate.
MatchChars == Chars \cup {"\n"}
MatchNames == SeqsUpTo(MatchChars, MaxNameLen) \ {<<>>}
NoSuchPort == [k \in 1..(MaxNameLen + 1) |-> "a"]

InitMatch ==
  /\ inputData \in {Config(NoSuchPort, DefsValue("undefined", <<>>), <<Pattern(n)>>, FALSE) :
                      n \in MatchNames}
  /\ outPortNames = <<NoSuchPort>>
  /\ inPortNames \in {<<n>> : n \in MatchNames}
  /\ openFails = {}
  /\ InitProgram

NextMatch ==
  \/ ExecuteBuild
  \/ ResolveOutput
  \/ AttachStep
  \/ AttachDone
  \/ ExitWithValue

SpecMatch == InitMatch /\ [][NextMatch]_vars

\* The routing of messages: the virtual output "X", the split table of one
\* range 60..63 -> channel 3 or none, the pattern "Ctrl*" under the key
\* execute reads (exclusionsList), under the key inputPortsExclusions, under
\* both or under neither, and up to MaxRunSent messages from the open ports.
MaxRunSent == 3
PortX == <<"X">>
CtrlStar == <<"C", "t", "r", "l", "*">>
ControllerA == <<"C", "o", "n", "t", "r", "o", "l", "l", "e", "r", " ", "A">>
CtrlA == <<"C", "t", "r", "l", " ", "A">>
Keyboard == <<"K", "e", "y", "b", "o", "a", "r", "d">>
RunDefs == {DefsValue("array", <<RangeDef(Num(60), Num(63), Num(3))>>),
            DefsValue("undefined", <<>>)}
RunExclusions == {<<>>, <<Pattern(CtrlStar)>>}
RunPorts == {<<ControllerA, Keyboard>>, <<Keyboard, ControllerA>>,
             <<CtrlA, Keyboard>>, <<Keyboard>>}
RunMessages == {Message(144, 61, 90), Message(144, 70, 90), Message(176, 61, 90)}

InitRun ==
  /\ inputData \in {[Config(PortX, d, e, FALSE) EXCEPT !.inputPortsExclusions = x] :
                      d \in RunDefs, e \in RunExclusions, x \in RunExclusions}
  /\ outPortNames = <<PortX>>
  /\ inPortNames \in RunPorts
  /\ openFails = {}
  /\ InitProgram

ReceiveRun ==
  /\ Len(sent) < MaxRunSent
  /\ \E p \in DOMAIN inputs : \E message \in RunMessages : HandleMessage(p, message)

NextRun ==
  \/ ExecuteBuild
  \/ ResolveOutput
  \/ AttachStep
  \/ AttachDone
  \/ ReceiveRun
  \/ Cleanup
  \/ CleanupCloseInput
  \/ CleanupCloseOutput
  \/ CleanupExit
  \/ Terminate

SpecRun == InitRun /\ [][NextRun]_vars

----------------------------------------------------------------------------
(* Properties of the transformer, under SpecTransform *)

\* The k-th received message and what was sent for it.
ReceivedMessage(k) == received[k].message
Splittable(m) == m.status \in 128..159

\* C1: a message with status in 128..159 whose note is in the table is sent
\* with the status's low nibble replaced by table[note] - 1, note and
\* velocity unchanged.
C1_ChannelRewrite ==
  \A k \in 1..Len(sent) :
    LET m == ReceivedMessage(k)
    IN  (Splittable(m) /\ m.note \in DOMAIN splitTable)
        => sent[k] = Message((m.status - (m.status % 16)) + (splitTable[m.note] - 1),
                             m.note, m.velocity)

C1_Witness ==
  /\ Len(sent) = 1
  /\ 60 \in DOMAIN splitTable
  /\ splitTable[60] = 3
  /\ ReceivedMessage(1) = Message(144, 60, 100)
  /\ sent[1] = Message(146, 60, 100)

\* C2: a message whose status is outside 128..159 is sent unchanged,
\* whatever the table holds for its note.
C2_PassThrough ==
  \A k \in 1..Len(sent) :
    ~Splittable(ReceivedMessage(k)) => sent[k] = ReceivedMessage(k)

C2_Witness ==
  /\ Len(sent) = 1
  /\ ReceivedMessage(1) = Message(176, 60, 100)
  /\ 60 \in DOMAIN splitTable
  /\ sent[1] = Message(176, 60, 100)

\* C3: a message with status in 128..159 whose note has no entry in the
\* table is sent unchanged; with the empty table every message is.
C3_AbsentNoteUnchanged ==
  \A k \in 1..Len(sent) :
    LET m == ReceivedMessage(k)
    IN  /\ (Splittable(m) /\ m.note \notin DOMAIN splitTable) => sent[k] = m
        /\ splitTable = EmptyTable => sent[k] = m

C3_Witness ==
  /\ Len(sent) = 1
  /\ ReceivedMessage(1) = Message(145, 61, 0)
  /\ splitTable # EmptyTable
  /\ 61 \notin DOMAIN splitTable
  /\ sent[1] = Message(145, 61, 0)

----------------------------------------------------------------------------
(* Properties of the compiler, under SpecCompile *)

\* The list given as split definitions (empty when the value is no list).
GivenDefinitions ==
  IF inputData.splitTable.js = "array" THEN inputData.splitTable.items ELSE <<>>

\* buildSplitTable has returned a table.
Compiled == pc = "outputResolving"

\* The data model's constraints on a definition: a Range with
\* 0 <= midiFrom <= midiTo <= 127 and a channel in 1..16, or an Enumeration
\* of notes in 0..127 with a channel in 1..16.
IsMidiNote(x) == x.t = "number" /\ x.v \in 0..127
IsMidiChannel(x) == x.t = "number" /\ x.v \in 1..16
ValidDefinition(d) ==
  /\ d.js = "object"
  /\ IsMidiChannel(d.channel)
  /\ \/ /\ d.type = "range"
        /\ IsMidiNote(d.midiFrom) /\ IsMidiNote(d.midiTo)
        /\ d.midiFrom.v <= d.midiTo.v
     \/ /\ d.type = "enumeration"
        /\ d.midi.isArray
        /\ \A k \in 1..Len(d.midi.items) : IsMidiNote(d.midi.items[k])
Covers(d, n) ==
  IF d.type = "range" THEN d.midiFrom.v <= n /\ n <= d.midiTo.v
  ELSE \E k \in 1..Len(d.midi.items) : d.midi.items[k].v = n
Covering(n) ==
  {k \in 1..Len(GivenDefinitions) :
     ValidDefinition(GivenDefinitions[k]) /\ Covers(GivenDefinitions[k], n)}
Last(S) == CHOOSE k \in S : \A j \in S : j <= k
NoteUniverse == -1..128

\* C4: the compiled table maps every note covered by a valid definition to
\* the channel of the last valid definition of the list that covers it.
C4_LastWriterWins ==
  Compiled =>
    \A n \in NoteUniverse :
      Covering(n) # {} =>
        /\ n \in DOMAIN splitTable
        /\ splitTable[n] = GivenDefinitions[Last(Covering(n))].channel.v

C4_Witness ==
  /\ Compiled
  /\ Len(GivenDefinitions) = 2
  /\ GivenDefinitions[1].type = "enumeration"
  /\ GivenDefinitions[2].type = "range"
  /\ Covering(1) = {1, 2}
  /\ GivenDefinitions[1].channel.v # GivenDefinitions[2].channel.v
  /\ splitTable[1] = GivenDefinitions[2].channel.v

\* C5: a single valid Range{a, b, c} compiles to the table whose notes are
\* exactly a..b, each mapped to c.
C5_SingleRange ==
  (/\ Compiled
   /\ Len(GivenDefinitions) = 1
   /\ GivenDefinitions[1].type = "range"
   /\ ValidDefinition(GivenDefinitions[1]))
  => /\ DOMAIN splitTable = GivenDefinitions[1].midiFrom.v .. GivenDefinitions[1].midiTo.v
     /\ \A n \in DOMAIN splitTable : splitTable[n] = GivenDefinitions[1].channel.v

C5_Witness ==
  /\ Compiled
  /\ GivenDefinitions = <<RangeDef(Num(2), Num(126), Num(16))>>
  /\ DOMAIN splitTable = 2..126
  /\ splitTable[2] = 16 /\ splitTable[126] = 16

\* The list with its invalid entries removed.
RECURSIVE ValidOnly(_)
ValidOnly(l) ==
  IF l = <<>> THEN <<>>
  ELSE (IF ValidDefinition(Head(l)) THEN <<Head(l)>> ELSE <<>>) \o ValidOnly(Tail(l))

\* C6: compiling a list gives the table that compiling the list without
\* its invalid entries gives.
C6_InvalidEntriesRejectedIndividually ==
  pc # "start" =>
    /\ Compiled
    /\ splitTable = buildSplitTable(DefsValue("array", ValidOnly(GivenDefinitions))).table

\* C6, over the lists that hold no null entry.
C6_WithoutNullEntries ==
  (pc # "start" /\ \A k \in 1..Len(GivenDefinitions) : GivenDefinitions[k].js # "null")
  => /\ Compiled
     /\ splitTable = buildSplitTable(DefsValue("array", ValidOnly(GivenDefinitions))).table

\* C7: buildSplitTable never throws: it returns a table for every input.
C7_CompileNeverThrows == pc # "threw"

DiscardedEnumeration(d) ==
  /\ d.js = "object"
  /\ d.type = "enumeration"
  /\ d.midi.isArray
  /\ \/ ~IsMidiChannel(d.channel)
     \/ \E j \in 1..Len(d.midi.items) : ~IsMidiNote(d.midi.items[j])

\* C29: an Enumeration is accepted or discarded as a whole: a valid note of
\* a discarded Enumeration is in the table only as the valid definitions of
\* the list put it there.
C29_EnumerationAsAWhole ==
  Compiled =>
    \A k \in 1..Len(GivenDefinitions) :
      DiscardedEnumeration(GivenDefinitions[k]) =>
        \A j \in 1..Len(GivenDefinitions[k].midi.items) :
          LET note == GivenDefinitions[k].midi.items[j]
          IN  (IsMidiNote(note) /\ note.v \in DOMAIN splitTable)
              => /\ Covering(note.v) # {}
                 /\ splitTable[note.v] =
                      GivenDefinitions[Last(Covering(note.v))].channel.v

\* An Enumeration of the valid note 0 and the note 128 has been discarded,
\* and note 0 with it.
C29_Witness ==
  /\ Compiled
  /\ GivenDefinitions = <<EnumDef(Arr(<<Num(0), Num(128)>>), Num(2))>>
  /\ splitTable = EmptyTable

\* The warnings that carry the index of entry k of the list.
DiagnosticsOf(k) ==
  {j \in 1..Len(log) : log[j].type = "warn" /\ log[j].index = k - 1}

\* C30: compiling a non-empty list emits exactly one diagnostic, carrying
\* the entry's index, for every discarded entry and none for an accepted one.
C30_OneDiagnosticPerDiscardedEntry ==
  (pc # "start" /\ GivenDefinitions # <<>>)
  => \A k \in 1..Len(GivenDefinitions) :
       Cardinality(DiagnosticsOf(k)) =
         IF ValidDefinition(GivenDefinitions[k]) THEN 0 ELSE 1

\* C30, over the lists that hold no null entry.
C30_WithoutNullEntries ==
  (\A k \in 1..Len(GivenDefinitions) : GivenDefinitions[k].js # "null")
  => C30_OneDiagnosticPerDiscardedEntry

\* A discarded entry, then a null entry, then nothing more: the first has
\* its diagnostic, the null entry has none.
C30_NullEntryWithoutDiagnostic ==
  /\ pc = "threw"
  /\ GivenDefinitions = <<UnknownDef, NullEntry>>
  /\ Cardinality(DiagnosticsOf(1)) = 1
  /\ DiagnosticsOf(2) = {}

----------------------------------------------------------------------------
(* Properties of the compiled table's entries, under SpecFraction *)

\* Every number of the definitions given is an integer.
RECURSIVE AllIntegers(_)
AllIntegers(items) ==
  \/ items = <<>>
  \/ /\ IsInteger(Head(items).midiFrom) /\ IsInteger(Head(items).midiTo)
     /\ IsInteger(Head(items).channel)
     /\ \A k \in 1..Len(Head(items).midi.items) : IsInteger(Head(items).midi.items[k])
     /\ AllIntegers(Tail(items))

\* C27: every key of the compiled table is an integer in 0..127 and every
\* value an integer in 1..16.
C27_NotesAndChannelsOnly ==
  /\ strayEntries = EmptyTable
  /\ \A n \in DOMAIN splitTable : n \in 0..127 /\ splitTable[n] \in 1..16

\* C27, for definitions whose numbers are all integers.
C27_IntegerDefinitions ==
  AllIntegers(GivenDefinitions) => C27_NotesAndChannelsOnly

\* A table with the key 126.5 and a table with the value 15.5.
C27_FractionalKey ==
  /\ Compiled
  /\ 253 \in DOMAIN strayEntries
  /\ strayEntries[253] = 2

C27_FractionalChannel ==
  /\ Compiled
  /\ 0 \in DOMAIN strayEntries
  /\ strayEntries[0] = 31
  /\ 0 \notin DOMAIN splitTable

----------------------------------------------------------------------------
(* Properties of the admission of input ports, under SpecAdmit *)

\* Wildcard semantics: "?" stands for exactly one character, "*" for any
\* run of characters, every other character for itself, and the whole
\* candidate is matched.
RECURSIVE WildcardMatches(_, _)
WildcardMatches(pattern, candidate) ==
  IF pattern = <<>> THEN candidate = <<>>
  ELSE IF Head(pattern) = "*"
  THEN \/ WildcardMatches(Tail(pattern), candidate)
       \/ candidate # <<>> /\ WildcardMatches(pattern, Tail(candidate))
  ELSE /\ candidate # <<>>
       /\ Head(pattern) = "?" \/ Head(pattern) = Head(candidate)
       /\ WildcardMatches(Tail(pattern), Tail(candidate))

\* Input port p has been through its turn of the attach loop.
Evaluated(p) ==
  /\ pc \in {"inputsAttaching", "returned1", "running", "shuttingDown", "exited",
             "terminated"}
  /\ i > p
Attached(p) == inputs[p].open /\ inputs[p].listening

\* C9: an input port named as the virtual output is never opened and never
\* listened to, whatever the exclusion list.
C9_FeedbackPrevention ==
  \A p \in DOMAIN inputs :
    inPortNames[p] = inputData.virtualOutputName
    => ~inputs[p].open /\ ~inputs[p].listening

C9_Witness ==
  /\ Evaluated(1)
  /\ inputData.exclusionsList = <<>>
  /\ inputData.virtualOutputName = <<".", "?">>
  /\ inPortNames[1] = inputData.virtualOutputName
  /\ ~inputs[1].open

\* C10: a port is admitted exactly when its name differs from the virtual
\* output's name and matches none of the exclusion patterns.
C10_AdmissionDecision ==
  \A p \in DOMAIN inputs :
    Evaluated(p) =>
      (Attached(p) <=>
         /\ inPortNames[p] # inputData.virtualOutputName
         /\ \A k \in 1..Len(inputData.exclusionsList) :
              ~WildcardMatches(inputData.exclusionsList[k].s, inPortNames[p]))

\* C10, over the virtual output names that hold neither "?" nor "*".
C10_PlainOutputName ==
  (\A k \in 1..Len(inputData.virtualOutputName) :
     inputData.virtualOutputName[k] \notin {"?", "*"})
  => C10_AdmissionDecision

\* The entries of the exclusion list that are pattern strings.
IsPatternString(pattern) == pattern.t = "string"
UsablePatterns == SelectSeq(inputData.exclusionsList, IsPatternString)
MalformedPattern ==
  \E k \in 1..Len(inputData.exclusionsList) :
    ~IsPatternString(inputData.exclusionsList[k])

\* A diagnostic about an exclusion pattern: a warning or an error that is
\* none of those about the split definitions, the output port or the lack of
\* inputs.
PatternDiagnostic ==
  \E k \in 1..Len(log) :
    /\ log[k].type \in {"warn", "error"}
    /\ log[k].text \notin {"invalid splitDefinitions", "invalid MIDI range",
                           "invalid MIDI values", "unknown type",
                           "Virtual MIDI output port not found",
                           "Not listening to any MIDI input devices"}

\* C28: an entry of the exclusion list that is no pattern string is
\* discarded with a diagnostic, the remaining patterns are still applied to
\* every port, and attaching goes on without an exception.
C28_MalformedPatternRecovered ==
  /\ pc # "threw"
  /\ \A p \in DOMAIN inputs :
       Evaluated(p) =>
         /\ Attached(p) <=>
              isExcluded(inPortNames[p],
                         ExclusionArguments(inputData.virtualOutputName,
                                            UsablePatterns)) = "no"
         /\ MalformedPattern => PatternDiagnostic

\* C28, over the exclusion lists whose entries are all pattern strings.
C28_PatternStrings == ~MalformedPattern => C28_MalformedPatternRecovered

\* The exception of a malformed pattern has ended attaching: the pattern
\* after it was never applied and no diagnostic was emitted.
C28_ExceptionWhileAttaching ==
  /\ pc = "threw"
  /\ inputData.exclusionsList = <<NonStringPattern, Pattern(<<"a">>)>>
  /\ inPortNames = <<<<"a">>>>
  /\ inputData.virtualOutputName = <<".">>
  /\ ~PatternDiagnostic

----------------------------------------------------------------------------
(* Properties of wildcard matching, under SpecMatch *)

\* C11: a pattern matches a candidate exactly when the whole candidate is
\* the pattern with each "?" replaced by one arbitrary character and each
\* "*" by any run of arbitrary characters: the one input port is excluded
\* exactly when the one exclusion pattern matches its name in that sense.
C11_WildcardMatching ==
  Evaluated(1) =>
    (~Attached(1) <=> WildcardMatches(inputData.exclusionsList[1].s, inPortNames[1]))

\* C11, over the candidates that hold no line terminator.
C11_WithoutLineTerminators ==
  (\A k \in 1..Len(inPortNames[1]) : inPortNames[1][k] \notin LineTerminators)
  => C11_WildcardMatching

----------------------------------------------------------------------------
(* Properties of the routing of messages, under SpecRun *)

\* C12: the exclusion patterns are those of the configuration key
\* inputPortsExclusions: with virtualOutputName "X" and inputPortsExclusions
\* ["Ctrl*"], once the engine runs the port "Controller A" is not attached
\* and the port "Keyboard" is.
C12_ExclusionsKey ==
  (/\ pc = "running"
   /\ inputData.virtualOutputName = PortX
   /\ inputData.inputPortsExclusions = <<Pattern(CtrlStar)>>)
  => \A p \in DOMAIN inputs :
       /\ inPortNames[p] = ControllerA => ~Attached(p)
       /\ inPortNames[p] = Keyboard => Attached(p)

\* What execute does instead: the patterns are those of the key
\* exclusionsList, "Ctrl*" keeps "Ctrl A" out, and "Controller A", which
\* "Ctrl*" does not match, is attached like "Keyboard".
C12_ExclusionsListKey ==
  pc = "running"
  => \A p \in DOMAIN inputs :
       Attached(p) <=>
         \A k \in 1..Len(inputData.exclusionsList) :
           ~WildcardMatches(inputData.exclusionsList[k].s, inPortNames[p])

C12_ControllerAttached ==
  /\ pc = "running"
  /\ inputData.exclusionsList = <<Pattern(CtrlStar)>>
  /\ inputData.inputPortsExclusions = <<Pattern(CtrlStar)>>
  /\ inPortNames = <<ControllerA, Keyboard>>
  /\ Attached(1)
  /\ Attached(2)

\* The table compiled at startup from the configuration.
StartupTable == buildSplitTable(SplitDefinitionsOrDefault(inputData.splitTable)).table

\* C16: every message received on an attached input port is sent exactly
\* once, as transformMidiSrc(table, message) for the table compiled at
\* startup; with the range 60..63 -> channel 3, (144, 61, 90) is sent as
\* (146, 61, 90) and (144, 70, 90) as it is.
C16_OneTransformedSendPerMessage ==
  /\ Len(sent) = Len(received)
  /\ \A k \in 1..Len(received) :
       /\ Attached(received[k].port) \/ pc # "running"
       /\ sent[k] = transformMidiSrc(StartupTable, ReceivedMessage(k))
       /\ inputData.splitTable.js = "array"
          => /\ ReceivedMessage(k) = Message(144, 61, 90) => sent[k] = Message(146, 61, 90)
             /\ ReceivedMessage(k) = Message(144, 70, 90) => sent[k] = Message(144, 70, 90)

C16_Witness ==
  /\ pc = "running"
  /\ inputData.splitTable.js = "array"
  /\ Len(received) = 2
  /\ ReceivedMessage(1) = Message(144, 61, 90)
  /\ ReceivedMessage(2) = Message(144, 70, 90)
  /\ sent = <<Message(146, 61, 90), Message(144, 70, 90)>>

\* s is t with some of its elements left out.
RECURSIVE IsSubsequence(_, _)
IsSubsequence(s, t) ==
  IF s = <<>> THEN TRUE
  ELSE IF t = <<>> THEN FALSE
  ELSE IF Head(s) = Head(t) THEN IsSubsequence(Tail(s), Tail(t))
  ELSE IsSubsequence(s, Tail(t))

\* What is to be sent for the messages received on port p, in the order
\* the port received them.
RoutedFrom(p) ==
  LET own == SelectSeq(received, LAMBDA r : r.port = p)
  IN  [k \in 1..Len(own) |-> transformMidiSrc(StartupTable, own[k].message)]

\* C17: whatever the interleaving of the ports' callbacks, the messages of
\* each input port are in the output stream in the order the port received
\* them.
C17_PerPortOrder ==
  \A p \in DOMAIN inputs : IsSubsequence(RoutedFrom(p), sent)

C17_Witness ==
  /\ Len(received) = 3
  /\ received[1].port = 1
  /\ received[2].port = 2
  /\ received[3].port = 1
  /\ ReceivedMessage(1) = Message(144, 70, 90)
  /\ ReceivedMessage(2) = Message(176, 61, 90)
  /\ ReceivedMessage(3) = Message(144, 61, 90)
  /\ sent = <<Message(144, 70, 90), Message(176, 61, 90), Message(146, 61, 90)>>

\* C26: once built, the table is never changed: no step of attaching,
\* forwarding or shutting down adds, removes or changes an entry.
C26_TableImmutable ==
  [][pc # "start" => UNCHANGED <<splitTable, strayEntries>>]_vars

C26_Witness ==
  /\ pc = "terminated"
  /\ cleanupCalls > 0
  /\ Len(sent) = 3
  /\ \E k \in 1..Len(sent) : sent[k] # ReceivedMessage(k)
  /\ DOMAIN splitTable = 60..63
  /\ splitTable = StartupTable

----------------------------------------------------------------------------
(* Properties of the process, under Spec *)

\* The output ports that are open, and the input ports that are in use.
OpenOutputs == {k \in DOMAIN outPortNames : output.open /\ output.port = k}
InputInUse(p) == inputs[p].open \/ inputs[p].listening

\* execute has listed the output ports and searched them.
OutputsEnumerated ==
  \E k \in 1..Len(log) : log[k].text = "Searching for virtual output port"
OutputNotFound ==
  \A k \in DOMAIN outPortNames : outPortNames[k] # inputData.virtualOutputName

\* C13: at most one output port is open, and while any input port is open
\* or has its callback registered the output port has been opened.
C13_OutputOpenedBeforeInputs ==
  /\ Cardinality(OpenOutputs) <= 1
  /\ (\E p \in DOMAIN inputs : InputInUse(p))
     => /\ output.port \in DOMAIN outPortNames
        /\ output.open \/ output.closes > 0

C13_Witness ==
  /\ pc = "inputsAttaching"
  /\ i = 2
  /\ InputInUse(1)
  /\ Len(inPortNames) = 2
  /\ OpenOutputs = {2}

\* C14: when no output port is named as the virtual output, no input port
\* is ever opened, no message is forwarded, the engine does not get to
\* run, and the process exits with code 2.
C14_OutputNotFoundIsFatal ==
  (OutputsEnumerated /\ OutputNotFound)
  => /\ pc \in {"exited", "terminated"}
     /\ exitCode = 2
     /\ \A p \in DOMAIN inputs : ~InputInUse(p) /\ inputs[p].closes = 0
     /\ localInputs = <<>> /\ inputInstances = <<>>
     /\ received = <<>> /\ sent = <<>>
     /\ OpenOutputs = {} /\ output.port = 0

C14_Witness ==
  /\ OutputsEnumerated
  /\ OutputNotFound
  /\ Len(outPortNames) = 2
  /\ Len(inPortNames) = 2
  /\ inputData.exclusionsList = <<>>
  /\ pc = "terminated"
  /\ exitCode = 2

\* The output ports named exactly as the virtual output.
OutputMatches ==
  {k \in DOMAIN outPortNames : outPortNames[k] = inputData.virtualOutputName}

cleanupVars == <<pc, log, inputs, output, cleanupCalled, cleanupPc, ci, exitCode>>

\* C18: once cleanup has been entered, entering it again changes nothing,
\* and over any number of shutdown requests no port is closed twice.
C18_ShutdownIdempotent ==
  /\ [](/\ \A p \in DOMAIN inputs : inputs[p].closes <= 1
        /\ output.closes <= 1)
  /\ [][(cleanupCalled /\ cleanupCalls' = cleanupCalls + 1) => UNCHANGED cleanupVars]_vars

C18_Witness ==
  /\ cleanupCalls = 2
  /\ pc = "terminated"
  /\ exitCode = 0
  /\ Len(inputInstances) = 2
  /\ \A p \in DOMAIN inputs : inputs[p].closes = 1
  /\ output.closes = 1

\* C19: on a shutdown of the running engine the output port is closed only
\* when every attached input port has been closed: in no state is the
\* output closed and an input port still open.
C19_InputsClosedBeforeOutput ==
  (inputInstances # <<>> /\ output.closes > 0)
  => \A p \in DOMAIN inputs : ~inputs[p].open /\ ~inputs[p].listening

C19_Witness ==
  /\ pc = "shuttingDown"
  /\ cleanupPc = "exiting"
  /\ Len(inputInstances) = 2
  /\ \A p \in DOMAIN inputs : inputs[p].closes = 1
  /\ ~output.open
  /\ output.closes = 1

\* C20: when the process is gone, every port that was opened has been
\* closed.
C20_AllClosedBeforeExit ==
  pc = "terminated"
  => /\ \A p \in DOMAIN inputs : ~inputs[p].open
     /\ ~output.open

\* A port left open although cleanup ran to its end before the process
\* went: the input opened before another port's openPort threw.
C20_LeakDespiteCleanup ==
  /\ pc = "terminated"
  /\ cleanupPc = "done"
  /\ openFails = {2}
  /\ inputs[1].open
  /\ ~output.open

\* The exits on which C20 holds: the shutdown of the running engine, and
\* the output not found.
C20_ShutdownAndNotFound ==
  (pc = "terminated" /\ (exitCode \in {0, 2}))
  => /\ \A p \in DOMAIN inputs : ~inputs[p].open
     /\ ~output.open

----------------------------------------------------------------------------
(* Properties of failures while attaching and of the process's exit, under *)
(* Spec                                                                    *)

\* Every exclusion pattern of the configuration is a string.
WellFormedExclusions ==
  \A k \in 1..Len(inputData.exclusionsList) : inputData.exclusionsList[k].t = "string"

\* Input port p passes the exclusions.
Admitted(p) ==
  isExcluded(inPortNames[p],
             ExclusionArguments(inputData.virtualOutputName, inputData.exclusionsList)) = "no"

OutputFound == OutputsEnumerated /\ ~OutputNotFound
AttachingOver == pc \notin {"start", "outputResolving", "inputsAttaching"}

\* A diagnostic about input port p.
DiagnosticAbout(p) ==
  \E k \in 1..Len(log) : log[k].index = p - 1 /\ log[k].type \in {"warn", "error"}

\* C21: an admitted input port whose opening fails is skipped with a
\* diagnostic and attaching goes on: once it is over, exactly the admitted
\* ports that could be opened are open and listened to.
C21_OpenFailureSkipped ==
  (OutputFound /\ WellFormedExclusions)
  => /\ pc # "threw"
     /\ pc \in {"returned1", "running"}
        => \A p \in DOMAIN inputs :
             /\ Attached(p) <=> (Admitted(p) /\ p \notin openFails)
             /\ (Admitted(p) /\ p \in openFails) => DiagnosticAbout(p)

\* C21, when the port that fails to open is not an admitted one.
C21_WithoutOpenFailures ==
  (\A p \in openFails : ~Admitted(p)) => C21_OpenFailureSkipped

\* C22: with the output found, attaching completes; with no input admitted
\* a warning is emitted and the process exits with code 1, with some input
\* admitted the engine runs and the process stays (until a shutdown, which
\* exits with code 0).
C22_AttachingCompletes ==
  OutputFound
  => /\ pc # "threw"
     /\ (AttachingOver /\ localInputs = <<>>)
        => /\ pc \in {"returned1", "exited", "terminated"}
           /\ exitCode = IF pc = "returned1" THEN -1 ELSE 1
           /\ \E k \in 1..Len(log) :
                log[k] = Event("warn", "Not listening to any MIDI input devices", -1)
     /\ (AttachingOver /\ localInputs # <<>>)
        => /\ pc \in {"running", "shuttingDown", "exited", "terminated"}
           /\ inputInstances = localInputs
           /\ exitCode = IF pc \in {"running", "shuttingDown"} THEN -1 ELSE 0

\* C22, when no exclusion pattern and no openPort throws.
C22_WithoutExceptions ==
  (WellFormedExclusions /\ \A p \in openFails : ~Admitted(p))
  => C22_AttachingCompletes

\* C23: the core never ends the process: the process exits only once
\* execute has returned its outcome to index.js (or has thrown), and an
\* output port that is not found is such an outcome.
C23_CoreNeverExits ==
  [][exitCode' # exitCode => pc \in {"returned1", "threw"}]_vars

\* The exit of the process from inside execute.
C23_ExitInsideExecute ==
  /\ pc = "exited"
  /\ exitCode = 2
  /\ OutputNotFound
  /\ cleanupCalls = 0

----------------------------------------------------------------------------
(* Properties of the debug setting, under Spec *)

\* The configuration with the debug setting off, and what decides the
\* routing, as functions of a configuration.
QuietConfig == [inputData EXCEPT !.debug = FALSE]
TableFor(config) == buildSplitTable(SplitDefinitionsOrDefault(config.splitTable)).table
AdmittedUnder(config, p) ==
  isExcluded(inPortNames[p],
             ExclusionArguments(config.virtualOutputName, config.exclusionsList)) = "no"

\* C24: the attached input ports and the messages sent are those of the
\* same configuration with debug off, for the same ports and the same
\* received messages: the debug setting changes neither.
C24_DebugDoesNotAlterRouting ==
  /\ debugMode => inputData.debug
  /\ Len(sent) = Len(received)
  /\ \A k \in 1..Len(sent) :
       sent[k] = transformMidiSrc(TableFor(QuietConfig), ReceivedMessage(k))
  /\ pc = "running"
     => \A p \in DOMAIN inputs : Attached(p) <=> AdmittedUnder(QuietConfig, p)

C24_Witness ==
  /\ inputData.debug
  /\ debugMode
  /\ pc = "running"
  /\ Len(inPortNames) = 2
  /\ Attached(1)
  /\ ~Attached(2)
  /\ Len(sent) = 2
  /\ ReceivedMessage(1) = Message(144, 61, 90)
  /\ sent[1] = Message(146, 61, 90)
  /\ sent[2] = Message(176, 61, 90)

----------------------------------------------------------------------------
(* Properties of repeated transformation, under SpecTransform *)

\* C25, as claimed: once the table is compiled, among the tables and
\* messages tried some table and some message with status in 128..159 give
\* a different message when transformed twice than when transformed once,
\* and no other message does.
C25_NotIdempotent ==
  Compiled
  => /\ \E t \in Tables : \E m \in TransformMessages :
          /\ Splittable(m)
          /\ transformMidiSrc(t, transformMidiSrc(t, m)) # transformMidiSrc(t, m)
     /\ \A t \in Tables : \A m \in TransformMessages :
          ~Splittable(m)
          => transformMidiSrc(t, transformMidiSrc(t, m)) = transformMidiSrc(t, m)

\* C25, amended: transforming what was sent gives what was sent, for every
\* table and every message, with status in 128..159 or not.
C25_Idempotent ==
  \A k \in 1..Len(sent) : transformMidiSrc(splitTable, sent[k]) = sent[k]

C25_Witness ==
  /\ Len(sent) = 1
  /\ Splittable(ReceivedMessage(1))
  /\ ReceivedMessage(1).status = 144
  /\ ReceivedMessage(1).note \in DOMAIN splitTable
  /\ sent[1].status = 146
  /\ transformMidiSrc(splitTable, sent[1]) = sent[1]

----------------------------------------------------------------------------
(* Properties of the attached inputs and of the sends, under Spec *)

\* The admission policy: a port is admitted when its name differs from the
\* virtual output's name and matches none of the exclusion patterns.
PolicyAdmits(p) ==
  /\ inPortNames[p] # inputData.virtualOutputName
  /\ \A k \in 1..Len(inputData.exclusionsList) :
       ~WildcardMatches(inputData.exclusionsList[k].s, inPortNames[p])

\* execute has been through every input port and has returned.
AttachingCompleted == pc \in {"returned1", "running"}

\* The turns of the attach loop that dealt with input port p.
EvaluationsOf(p) ==
  {k \in 1..Len(log) :
     /\ log[k].index = p - 1
     /\ log[k].text \in {"Listening to MIDI input port", "Skipped MIDI input port"}}

\* The receive subscriptions kept for input port p.
SubscriptionsOf(p) == {k \in 1..Len(localInputs) : localInputs[k] = p}

\* C31: when attaching completes the open input ports are exactly the
\* ports the admission policy admits, every port was evaluated once, every
\* admitted port has one subscription, and a port the policy excludes is
\* never open.
C31_OpenInputsAreAdmitted ==
  /\ \A p \in DOMAIN inputs : ~PolicyAdmits(p) => ~inputs[p].open
  /\ AttachingCompleted
     => \A p \in DOMAIN inputs :
          /\ Attached(p) <=> PolicyAdmits(p)
          /\ Cardinality(EvaluationsOf(p)) = 1
          /\ Cardinality(SubscriptionsOf(p)) = IF PolicyAdmits(p) THEN 1 ELSE 0

\* C31, over the virtual output names that hold neither "?" nor "*".
C31_PlainOutputName ==
  (\A k \in 1..Len(inputData.virtualOutputName) :
     inputData.virtualOutputName[k] \notin {"?", "*"})
  => C31_OpenInputsAreAdmitted

\* With the output named "a*", the port "a" was left out though the policy
\* admits it, and execute returned having attached nothing.
C31_AdmittedPortLeftOut ==
  /\ pc = "returned1"
  /\ inputData.virtualOutputName = <<"a", "*">>
  /\ inputData.exclusionsList = <<>>
  /\ inPortNames = << <<"a">> >>
  /\ PolicyAdmits(1) /\ ~Attached(1)

\* C32: every send happens while the output port is open: it was opened
\* before the send and is not closed by it.
C32_SendsWhileOpen ==
  [][sent' # sent => output.open /\ output'.open]_vars

\* Messages were sent, and the output port was closed after them.
C32_Witness ==
  /\ Len(sent) = 2
  /\ ~output.open
  /\ output.closes = 1
  /\ pc = "exited"

----------------------------------------------------------------------------
(* Properties of the rerouted status byte, under SpecTransform *)

\* The kind of a message: the high nibble of its status byte.
HighNibble(status) == status \div 16
LowNibble(status) == status % 16

\* C33: with a table whose values are channels 1..16, a rerouted message
\* keeps its kind: the status sent has the high nibble of the status
\* received (Note Off stays in 128..143, Note On in 144..159) and the low
\* nibble table[note] - 1, a value in 0..15.
C33_KindKept ==
  (\A n \in DOMAIN splitTable : splitTable[n] \in 1..16)
  => \A k \in 1..Len(sent) :
       LET m == ReceivedMessage(k)
       IN  (Splittable(m) /\ m.note \in DOMAIN splitTable)
           => /\ HighNibble(sent[k].status) = HighNibble(m.status)
              /\ m.status \in 128..143 => sent[k].status \in 128..143
              /\ m.status \in 144..159 => sent[k].status \in 144..159
              /\ LowNibble(sent[k].status) = splitTable[m.note] - 1
              /\ LowNibble(sent[k].status) \in 0..15

\* A Note On of velocity 0 on channel 16 was rerouted to channel 1 and is
\* still a Note On.
C33_Witness ==
  /\ Len(sent) = 1
  /\ ReceivedMessage(1) = Message(159, 127, 0)
  /\ 127 \in DOMAIN splitTable
  /\ splitTable[127] = 1
  /\ sent[1].status = 144

----------------------------------------------------------------------------
(* Properties of the installed transformer, under Spec *)

\* C34: the transformer over the compiled table is installed before any
\* input port is opened, so no callback runs with the placeholder: every
\* value sent is a message of status, note and velocity, never the
\* placeholder's undefined.
C34_TransformerInstalledFirst ==
  /\ (\E p \in DOMAIN inputs : inputs[p].open) => transformMidi = "closure"
  /\ \A k \in 1..Len(sent) :
       /\ sent[k] # UndefinedMessage
       /\ DOMAIN sent[k] = {"status", "note", "velocity"}
       /\ sent[k].status \in 0..255

\* Two inputs are open, the closure is installed and a message was sent.
C34_Witness ==
  /\ pc = "running"
  /\ transformMidi = "closure"
  /\ Len(inputs) = 2 /\ inputs[1].open /\ inputs[2].open
  /\ Len(sent) = 1
  /\ received[1].port = 2

====
